---- MODULE Spec2Model ----
(***************************************************************************)
(* A model of HW3/Q2.ipynb: planar and radial flows, the NormalizingFlow   *)
(* sequence, the latent step of VAE and VAENormalizingFlow, the sigma head *)
(* and the training driver around them.                                    *)
(*                                                                         *)
(* Numbers.  A tensor entry is a fixed-point integer counting units of     *)
(* 1/Scale = 1e-4; every arithmetic operation rounds its result to the     *)
(* nearest unit and saturates at +-Huge (5e4), the model's stand-in for    *)
(* float overflow to +-inf; NaN is the float nan (inf * 0, inf - inf,      *)
(* 0 / 0), which every operation hands on.  A tensor of shape (n, d) is a  *)
(* sequence of n rows, each a sequence of d entries; a tensor of shape     *)
(* (n, 1) has rows of length 1.                                            *)
(***************************************************************************)
EXTENDS Integers, Sequences, FiniteSets, TLC

\* ------------------------------------------------------------------------
\* State
\* ------------------------------------------------------------------------
VARIABLES
  pc,           \* where the program is: "ctor", "idle", "encoded", "flow",
                \* "flow_ret", "latent_ret", "raised"
  dim,          \* NormalizingFlow.__init__: dim
  blocks,       \* NormalizingFlow.__init__: blocks, a sequence of flow classes
  flow_length,  \* NormalizingFlow.__init__: flow_length
  seed,         \* the state of the random generator when construction starts
  drawn,        \* how many values uniform_ has drawn since
  f,            \* __init__: the outer loop's f
  bi,           \* __init__: the inner loop's position in blocks, from 1
  biject,       \* __init__: the local list biject
  bijectors,    \* self.bijectors
  log_det,      \* self.log_det: a reference to a list object, 0 before it is set
  heap,         \* the list objects alive: reference -> sequence of (n, 1) tensors
  cls,          \* the class of the model: "VAE" or "VAENormalizingFlow"
  n_batch,      \* latent: n_batch = x.size(0)
  mu,           \* latent: mu, shape (n_batch, latent_dims)
  sigma,        \* latent: sigma, shape (n_batch, latent_dims)
  eps,          \* latent: q.sample((n_batch, ))
  z_0,          \* latent: z_0 (z in VAE.latent)
  fz,           \* forward: the local z
  fb,           \* forward: how many flows the loop has applied
  z_k,          \* latent: z_k, as forward returned it
  list_ladj,    \* latent: list_ladj, the reference forward returned; 0 if none
  result,       \* what latent returned: <<>> or <<[z, reg]>>
  stepped,      \* history: whether the optimizer has taken a step
  entry,        \* history: self.log_det and self.bijectors when forward was entered
  lastFlow,     \* history: the last call of a flow: <<>> or <<[flow, z, out, ladj]>>
  savedFlow,    \* history: an earlier value of lastFlow, kept for comparison
  savedLatent,  \* history: an earlier latent call, kept for comparison
  batch_idx,    \* train_vae, evaluate_nll_bpd: the loop's batch_idx
  epochs,       \* train_vae: epochs
  subsample,    \* train_vae: subsample
  train_loader, \* train_vae: how many batches train_loader delivers
  it,           \* train_vae: the loop's it
  beta,         \* train_vae: beta
  loss,         \* train_vae: loss, as last computed
  held,         \* a caller of forward: the list it kept from a call, 0 if none
  heldLog,      \* history: what that list held when forward returned it
  data_loader,  \* evaluate_nll_bpd: the batches data_loader delivers
  batch,        \* evaluate_nll_bpd: batch
  R,            \* evaluate_nll_bpd: R
  ev_x,         \* evaluate_nll_bpd: x
  ev_j,         \* evaluate_nll_bpd: the loop's j
  j_end,        \* evaluate_nll_bpd: the end of range(x.shape[0])
  ev_r,         \* evaluate_nll_bpd: the loop's r
  ev_a,         \* evaluate_nll_bpd: a, each value given as the sample it scores
  likelihood_test \* evaluate_nll_bpd: likelihood_test, each estimate given as
                \* the samples whose scores it combines

ctorVars == <<dim, blocks, flow_length, seed, drawn, f, bi, biject>>
flowVars == <<bijectors, log_det, heap>>
paramVars == <<cls, n_batch, mu, sigma>>
latentVars == <<eps, z_0, fz, fb, z_k, list_ladj, result>>
histVars == <<entry, lastFlow, savedFlow, savedLatent>>
trainVars == <<epochs, subsample, train_loader, it, beta, loss>>
holdVars == <<held, heldLog>>
evalVars == <<data_loader, batch, R, ev_x, ev_j, j_end, ev_r, ev_a, likelihood_test>>
auxVars == <<batch_idx, trainVars, holdVars, evalVars>>
coreVars == <<ctorVars, flowVars, paramVars, latentVars, stepped, histVars>>
vars == <<pc, coreVars, auxVars>>

\* ------------------------------------------------------------------------
\* Fixed-point arithmetic (the tensor runtime the notebook calls into)
\* ------------------------------------------------------------------------
Scale == 10 ^ 4
Huge == 5 * 10 ^ 8
NaN == Huge + 1
\* ln 2 and ln 1e-9, in units
Ln2 == (Scale * 6931) \div 10 ^ 4
LogEps == 0 - (Scale * 207233) \div 10 ^ 4

Abs(x) == IF x < 0 THEN 0 - x ELSE x
Sgn(x) == IF x < 0 THEN 0 - 1 ELSE IF x > 0 THEN 1 ELSE 0
Min(a, b) == IF a < b THEN a ELSE b
Max(a, b) == IF a < b THEN b ELSE a
Sat(x) == Max(0 - Huge, Min(Huge, x))

\* a + b and a - b, saturating; inf - inf is nan
Add(a, b) ==
  IF a = NaN \/ b = NaN THEN NaN
  ELSE IF Abs(a) = Huge /\ a + b = 0 THEN NaN
  ELSE Sat(a + b)
Sub(a, b) == IF b = NaN THEN NaN ELSE Add(a, 0 - b)

\* |a| * |b| / Scale rounded to the nearest unit, for 0 <= p, q <= Huge,
\* computed in pieces that stay inside 32 bits
MulAbs(p, q) ==
  LET ph == p \div Scale
      pl == p % Scale
      qh == q \div Scale
      ql == q % Scale
  IN IF ph > 0 /\ qh > (Huge \div Scale) \div ph
       THEN Huge
       ELSE Min(Huge, ph * qh * Scale + ph * ql + pl * qh
                      + (pl * ql + Scale \div 2) \div Scale)

\* a * b; inf * 0 is nan
Mul(a, b) ==
  IF a = NaN \/ b = NaN THEN NaN
  ELSE IF (Abs(a) = Huge /\ b = 0) \/ (a = 0 /\ Abs(b) = Huge) THEN NaN
  ELSE Sgn(a) * Sgn(b) * MulAbs(Abs(a), Abs(b))

\* |a| / |b| rounded to the nearest unit, for 0 <= p <= Huge, 0 < q <= Huge
DivAbs(p, q) ==
  LET whole == p \div q
      rest == p % q
      \* rest * Scale / q without leaving 32 bits
      frac == IF rest <= 200000
                THEN (rest * Scale + q \div 2) \div q
                ELSE (rest * 4 + (q \div 2500) \div 2) \div Max(1, q \div 2500)
  IN IF whole > Huge \div Scale THEN Huge ELSE Min(Huge, whole * Scale + frac)

\* a / b; a division by zero gives +-Huge, as the runtime gives +-inf; 0 / 0
\* and inf / inf are nan
Div(a, b) ==
  IF a = NaN \/ b = NaN THEN NaN
  ELSE IF (a = 0 /\ b = 0) \/ (Abs(a) = Huge /\ Abs(b) = Huge) THEN NaN
  ELSE IF b = 0 THEN (IF a < 0 THEN 0 - Huge ELSE Huge)
  ELSE Sgn(a) * Sgn(b) * DivAbs(Abs(a), Abs(b))

\* x ** n for a natural exponent n
RECURSIVE Pow(_, _)
Pow(x, n) == IF n = 0 THEN Scale ELSE Mul(x, Pow(x, n - 1))

\* floor(sqrt(n)) of a natural number n
RECURSIVE ISqrtFrom(_, _)
ISqrtFrom(n, g) ==
  LET g2 == (g + n \div g) \div 2
  IN IF g2 >= g THEN g ELSE ISqrtFrom(n, g2)
ISqrt(n) == IF n < 2 THEN n ELSE ISqrtFrom(n, n \div 2 + 1)

\* exp(r) for 0 <= r < ln 2, by its Taylor series
ExpFrac(r) ==
  LET r2 == Mul(r, r)
      r3 == Mul(r2, r)
      r4 == Mul(r3, r)
      r5 == Mul(r4, r)
  IN Scale + r + r2 \div 2 + r3 \div 6 + r4 \div 24 + r5 \div 120

\* m * 2^k for 0 <= m <= 2 * Scale, rounded, saturating
RECURSIVE Shift(_, _)
Shift(m, k) ==
  IF k = 0 THEN m
  ELSE IF k > 0 THEN (IF m >= Huge \div 2 THEN Huge ELSE Shift(2 * m, k - 1))
  ELSE IF k < 0 - 20 THEN 0
  ELSE (m + 2 ^ (0 - k - 1)) \div 2 ^ (0 - k)

\* torch.exp
Exp(x) ==
  LET k == x \div Ln2
      r == x - k * Ln2
  IN IF x = NaN THEN NaN
     ELSE IF x >= 12 * Scale THEN Huge
     ELSE IF x <= 0 - 12 * Scale THEN 0
     ELSE Shift(ExpFrac(r), k)

\* log(m) for Scale <= m < 2 * Scale, by the series of 2 * atanh
LogMant(m) ==
  LET t == Div(m - Scale, m + Scale)
      t2 == Mul(t, t)
      t3 == Mul(t2, t)
      t5 == Mul(t3, t2)
      t7 == Mul(t5, t2)
  IN 2 * (t + t3 \div 3 + t5 \div 5 + t7 \div 7)

RECURSIVE LogPos(_, _)
LogPos(x, k) ==
  IF x < Scale THEN LogPos(2 * x, k - 1)
  ELSE IF x >= 2 * Scale THEN LogPos((x + 1) \div 2, k + 1)
  ELSE k * Ln2 + LogMant(x)

\* torch.log; log(0) = -inf saturates, and so does the log of a negative
Log(x) ==
  IF x = NaN THEN NaN
  ELSE IF x <= 0 THEN 0 - Huge
  ELSE IF x >= Huge THEN Huge
  ELSE LogPos(x, 0)

\* torch.tanh, from exp(-2|x|) so that nothing overflows
Tanh(x) ==
  LET e == Exp(0 - 2 * Min(Abs(x), 12 * Scale))
  IN IF x = NaN THEN NaN ELSE Sgn(x) * Div(Scale - e, Scale + e)

\* log(|d| + 1e-9): 1e-9 is below one unit, so it only shows at d = 0
LogAbsEps(d) == IF d = 0 THEN LogEps ELSE Log(Abs(d))

\* ------------------------------------------------------------------------
\* Tensors
\* ------------------------------------------------------------------------
RECURSIVE SumSeq(_)
SumSeq(s) == IF s = <<>> THEN 0 ELSE Add(Head(s), SumSeq(Tail(s)))

\* the entries of a tensor, row after row
RECURSIVE Flatten(_)
Flatten(t) == IF t = <<>> THEN <<>> ELSE Head(t) \o Flatten(Tail(t))

\* torch.sum(t): the sum of all entries
SumAll(t) == SumSeq(Flatten(t))

\* torch.cat(list) of (n, 1) tensors along dimension 0
RECURSIVE Cat(_)
Cat(ts) == IF ts = <<>> THEN <<>> ELSE Head(ts) \o Cat(Tail(ts))

\* elementwise operations on rows of equal length
RowSub(a, b) == [c \in DOMAIN a |-> Sub(a[c], b[c])]
Dot(a, b) == SumSeq([c \in DOMAIN a |-> Mul(a[c], b[c])])

\* torch.norm(row): the Euclidean norm, from the exact sum of squares
RECURSIVE SumSquares(_, _)
SumSquares(d, k) ==
  IF d = <<>> THEN 0 ELSE (Head(d) \div k) * (Head(d) \div k) + SumSquares(Tail(d), k)
Norm(d) ==
  IF \E c \in DOMAIN d : d[c] = NaN THEN NaN
  ELSE IF \A c \in DOMAIN d : Abs(d[c]) <= 20000
    THEN ISqrt(SumSquares(d, 1))
    ELSE Min(Huge, 10 ^ 4 * ISqrt(SumSquares(d, 10 ^ 4)))

\* ------------------------------------------------------------------------
\* PlanarFlow and RadialFlow
\* ------------------------------------------------------------------------
Kinds == {"PlanarFlow", "RadialFlow"}

\* uniform_(-0.01, 0.01): the k-th value drawn after seed s, in units; every
\* value lies in [-100, 100]
Uniform(s, k) == ((s * 37 + k * 61) % 201) - 100

\* torch.Tensor(1, dim) followed by uniform_: a row of dim entries, the
\* values k + 1 .. k + dim of the generator
UniformRow(s, k, d) == [c \in 1..d |-> Uniform(s, k + c)]

\* PlanarFlow.__init__ with dim >= 0: weight, scale, bias are drawn in the
\* order they were registered; k values were drawn before
NewPlanar(id, d, s, k) ==
  [id |-> id, kind |-> "PlanarFlow",
   weight |-> UniformRow(s, k, d),
   scale |-> UniformRow(s, k + d, d),
   bias |-> Uniform(s, k + 2 * d + 1)]

\* RadialFlow.__init__ with dim >= 0: z0, alpha, beta, and the stored dim
NewRadial(id, d, s, k) ==
  [id |-> id, kind |-> "RadialFlow",
   z0 |-> UniformRow(s, k, d),
   alpha |-> Uniform(s, k + d + 1),
   beta |-> Uniform(s, k + d + 2),
   dim |-> d]

\* b_flow(dim), and how many values its init_parameters draws
NewFlow(kind, id, d, s, k) ==
  IF kind = "PlanarFlow" THEN NewPlanar(id, d, s, k) ELSE NewRadial(id, d, s, k)
Draws(kind, d) == IF kind = "PlanarFlow" THEN 2 * d + 1 ELSE d + 2

\* F.linear(z, weight, bias) for a weight of one row: one value per sample
PlanarLinear(p, row) == Add(Dot(row, p.weight), p.bias)

\* (variant) a transform that adds the generator's last sample as noise
PlanarCallNoisy(p, z) ==
  [r \in DOMAIN z |->
     LET t == Tanh(Add(Dot(z[r], p.weight), p.bias))
         noise == IF eps = <<>> THEN 0 ELSE eps[1][1]
     IN [c \in DOMAIN z[r] |-> Add(Add(z[r][c], Mul(p.scale[c], t)), noise)]]

\* PlanarFlow._call
PlanarCall(p, z) ==
  [r \in DOMAIN z |->
     LET t == Tanh(PlanarLinear(p, z[r]))
     IN [c \in DOMAIN z[r] |-> Add(z[r][c], Mul(p.scale[c], t))]]

\* (variant) a determinant without the identity's 1
PlanarDetNoUnit(p, row) ==
  LET t == Tanh(PlanarLinear(p, row))
      psi == [c \in DOMAIN row |-> Mul(Sub(Scale, Pow(t, 2)), p.weight[c])]
  IN Dot(psi, p.scale)

\* PlanarFlow.log_abs_det_jacobian: a tensor of shape (n, 1)
PlanarDet(p, row) ==
  LET t == Tanh(PlanarLinear(p, row))
      psi == [c \in DOMAIN row |-> Mul(Sub(Scale, Pow(t, 2)), p.weight[c])]
  IN Add(Scale, Dot(psi, p.scale))
PlanarLogDet(p, z) == [r \in DOMAIN z |-> <<LogAbsEps(PlanarDet(p, z[r]))>>]

\* (variant) a displacement along z instead of z - z0
RadialCallFromOrigin(p, z) ==
  [r \in DOMAIN z |->
     LET d == RowSub(z[r], p.z0)
         h == Div(Scale, Add(p.alpha, Norm(d)))
     IN [c \in DOMAIN z[r] |-> Add(z[r][c], Mul(Mul(p.beta, h), z[r][c]))]]

\* RadialFlow._call
RadialCall(p, z) ==
  [r \in DOMAIN z |->
     LET d == RowSub(z[r], p.z0)
         h == Div(Scale, Add(p.alpha, Norm(d)))
     IN [c \in DOMAIN z[r] |-> Add(z[r][c], Mul(Mul(p.beta, h), d[c]))]]

\* RadialFlow.log_abs_det_jacobian: a tensor of shape (n, 1)
RadialDet(p, row) ==
  LET r == Norm(RowSub(row, p.z0))
      h == Div(Scale, Add(p.alpha, r))
      hp == Sub(0, Div(Scale, Pow(Add(p.alpha, r), 2)))
      bh == Mul(p.beta, h)
  IN Mul(Sub(Pow(Add(Scale, bh), p.dim), Scale),
         Add(Add(Scale, bh), Mul(Mul(p.beta, hp), r)))
RadialLogDet(p, z) == [r \in DOMAIN z |-> <<LogAbsEps(RadialDet(p, z[r]))>>]

\* self.bijectors[b](z) and self.bijectors[b].log_abs_det_jacobian(z)
FlowCall(p, z) == IF p.kind = "PlanarFlow" THEN PlanarCall(p, z) ELSE RadialCall(p, z)
FlowLogDet(p, z) ==
  IF p.kind = "PlanarFlow" THEN PlanarLogDet(p, z) ELSE RadialLogDet(p, z)


\* ------------------------------------------------------------------------
\* The sigma head and the latent step
\* ------------------------------------------------------------------------
\* nn.Hardtanh(min_val=1e-4, max_val=5.)
SigmaMin == 1
SigmaMax == 5 * Scale

\* (variant) a clamp from above only
HardtanhNoFloor(x) == IF x = NaN THEN NaN ELSE Min(SigmaMax, x)

Hardtanh(x) == IF x = NaN THEN NaN ELSE Min(SigmaMax, Max(SigmaMin, x))

\* nn.Softplus: log(1 + exp(x)), evaluated as max(x, 0) + log(1 + exp(-|x|))
Softplus(x) == Add(Max(x, 0), Log(Scale + Exp(0 - Abs(x))))

\* nn.Linear: h of shape (n, e), weight of shape (d, e), bias of length d
Linear(h, w, b) ==
  [r \in DOMAIN h |-> [c \in DOMAIN w |-> Add(Dot(h[r], w[c]), b[c])]]

\* self.sigma = nn.Sequential(nn.Linear, nn.Softplus, nn.Hardtanh)
SigmaHead(h, w, b) ==
  LET lin == Linear(h, w, b)
  IN [r \in DOMAIN lin |-> [c \in DOMAIN lin[r] |-> Hardtanh(Softplus(lin[r][c]))]]

\* z = (sigma * q.sample((n_batch, ))) + mu
Reparam(m, sg, e) ==
  [r \in DOMAIN m |-> [c \in DOMAIN m[r] |-> Add(Mul(sg[r][c], e[r][c]), m[r][c])]]

\* x / n for a count n
DivCount(x, n) == Div(x, n * Scale)

\* (variant) a KL term computed from the sample z where mu belongs
VAELatentOnSample(n, m, sg, e) ==
  LET z == Reparam(m, sg, e)
      terms == [r \in DOMAIN m |-> [c \in DOMAIN m[r] |->
                  Sub(Sub(Add(Scale, sg[r][c]), Pow(z[r][c], 2)), Exp(sg[r][c]))]]
      kl == Mul(0 - Scale \div 2, SumAll(terms))
  IN [z |-> z, reg |-> DivCount(kl, n)]

\* VAE.latent: (z, kl_div)
VAELatent(n, m, sg, e) ==
  LET terms == [r \in DOMAIN m |-> [c \in DOMAIN m[r] |->
                  Sub(Sub(Add(Scale, sg[r][c]), Pow(m[r][c], 2)), Exp(sg[r][c]))]]
      kl == Mul(0 - Scale \div 2, SumAll(terms))
  IN [z |-> Reparam(m, sg, e), reg |-> DivCount(kl, n)]

\* log_p_zk = -0.5 * z_k * z_k, one entry
LogP(zk) == Mul(0 - Scale \div 2, Mul(zk, zk))

\* log_q_z0 = -0.5 * (sigma.log() + (z_0 - mu) * (z_0 - mu) * sigma.reciprocal()),
\* one entry
LogQ(z0, m, sg) ==
  Mul(0 - Scale \div 2,
      Add(Log(sg), Mul(Mul(Sub(z0, m), Sub(z0, m)), Div(Scale, sg))))

\* (log_q_z0 - log_p_zk).sum()
SumLogs(m, sg, z0, zk) ==
  SumAll([r \in DOMAIN z0 |-> [c \in DOMAIN z0[r] |->
            Sub(LogQ(z0[r][c], m[r][c], sg[r][c]), LogP(zk[r][c]))]])

\* (variant) the log-determinants added instead of subtracted
FlowLatentAdds(n, m, sg, z0, zk, ladj) ==
  [z |-> zk, reg |-> DivCount(Add(SumLogs(m, sg, z0, zk), SumAll(Cat(ladj))), n)]

\* VAENormalizingFlow.latent after self.flow(z_0) returned (zk, ladj), ladj the
\* content of list_ladj, not empty: (z_k, logs / n_batch)
FlowLatent(n, m, sg, z0, zk, ladj) ==
  [z |-> zk, reg |-> DivCount(Sub(SumLogs(m, sg, z0, zk), SumAll(Cat(ladj))), n)]

\* ------------------------------------------------------------------------
\* The optimizer
\* ------------------------------------------------------------------------
\* optimizer.step() on one parameter value: it is left a multiple of 0.25
\* away from where it was initialised
Moved(v, k, j) == Add(v, k * (Scale \div 4) * (IF j % 2 = 0 THEN 0 - 1 ELSE 1))
MovedRow(row, k) == [c \in DOMAIN row |-> Moved(row[c], k, c)]

\* optimizer.step() on the parameters of one flow
Trained(p, k) ==
  IF p.kind = "PlanarFlow"
    THEN [p EXCEPT !.weight = MovedRow(p.weight, k),
                   !.scale = MovedRow(p.scale, k + 1),
                   !.bias = Moved(p.bias, k, p.id)]
    ELSE [p EXCEPT !.z0 = MovedRow(p.z0, k),
                   !.alpha = Moved(p.alpha, k + 1, 1),
                   !.beta = Moved(p.beta, k, p.id)]

\* ------------------------------------------------------------------------
\* NormalizingFlow.forward
\* ------------------------------------------------------------------------
ListIds == 1..3

\* a new list object []: its reference differs from every reference in use
NewList(inUse) == CHOOSE i \in ListIds \ inUse : \A j \in ListIds \ inUse : i <= j

\* (variant) forward without self.log_det = []: the list of the last call is
\* kept and appended to
ForwardEnterKeep(h, old, others) == [heap |-> h, log_det |-> old]

\* (variant) forward emptying the list in place: self.log_det.clear()
ForwardEnterClear(h, old, others) ==
  [heap |-> [i \in others \cup {old} |-> IF i = old THEN <<>> ELSE h[i]],
   log_det |-> old]

\* self.log_det = [] in forward: self.log_det, which referred to old, now
\* refers to a new empty list; a list no one refers to any more is gone
\* (others: the references held elsewhere)
ForwardEnter(h, old, others) ==
  LET new == NewList(others \cup {old})
  IN [heap |-> [i \in others \cup {new} |-> IF i = new THEN <<>> ELSE h[i]],
      log_det |-> new]

\* (variant) the two statements of the loop body in the other order
ForwardIterSwapped(bs, z, ld, b) ==
  [log_det |-> Append(ld, FlowLogDet(bs[b], FlowCall(bs[b], z))),
   z |-> FlowCall(bs[b], z),
   bijectors |-> bs]

\* (variant) a loop that consumes the flow it has applied
ForwardIterPop(bs, z, ld, b) ==
  [log_det |-> Append(ld, FlowLogDet(bs[b], z)),
   z |-> FlowCall(bs[b], z),
   bijectors |-> [i \in 1..(Len(bs) - 1) |-> IF i < b THEN bs[i] ELSE bs[i + 1]]]

\* (variant) a loop that writes to a parameter of the flow it applies
ForwardIterTouch(bs, z, ld, b) ==
  [log_det |-> Append(ld, FlowLogDet(bs[b], z)),
   z |-> FlowCall(bs[b], z),
   bijectors |-> [bs EXCEPT ![b] = Trained(bs[b], 1)]]

\* one turn of the loop over b (b counted from 1): the log-determinant of
\* flow b at z is appended, then z becomes the flow's output
ForwardIter(bs, z, ld, b) ==
  [log_det |-> Append(ld, FlowLogDet(bs[b], z)),
   z |-> FlowCall(bs[b], z),
   bijectors |-> bs]

\* ------------------------------------------------------------------------
\* Bounds and the values inputs are drawn from
\* ------------------------------------------------------------------------
MaxFlowLength == 3
MaxTrainFlowLength == 2
MaxBatch == 2

\* the lists of flow classes: none, one, or two in either order
BlockLists == UNION {[1..k -> Kinds] : k \in 0..2}

Dims == {0 - 1, 0, 1, 2}
TrainDims == {1, 2}
Seeds == {0, 1}
EncVals == {0 - Scale, Scale}
EpsVals == {0 - Scale, Scale \div 2}
StepVals == {1, 2}

\* ------------------------------------------------------------------------
\* NormalizingFlow.__init__
\* ------------------------------------------------------------------------
\* train_vae, a caller of forward and evaluate_nll_bpd are not running
TrainBlank ==
  /\ epochs = 0
  /\ subsample = 0
  /\ train_loader = 0
  /\ it = 0
  /\ beta = 0
  /\ loss = 0
HoldBlank ==
  /\ held = 0
  /\ heldLog = <<>>
EvalBlank ==
  /\ data_loader = <<>>
  /\ batch = 0
  /\ R = 0
  /\ ev_x = <<>>
  /\ ev_j = 0
  /\ j_end = 0
  /\ ev_r = 0
  /\ ev_a = <<>>
  /\ likelihood_test = <<>>
AuxBlank ==
  /\ batch_idx = 0
  /\ TrainBlank
  /\ HoldBlank
  /\ EvalBlank

\* nothing is constructed and no call is running
Blank ==
  /\ drawn = 0
  /\ f = 0
  /\ bi = 1
  /\ biject = <<>>
  /\ bijectors = <<>>
  /\ log_det = 0
  /\ heap = <<>>
  /\ n_batch = 0
  /\ mu = <<>>
  /\ sigma = <<>>
  /\ eps = <<>>
  /\ z_0 = <<>>
  /\ fz = <<>>
  /\ fb = 0
  /\ z_k = <<>>
  /\ list_ladj = 0
  /\ result = <<>>
  /\ stepped = FALSE
  /\ entry = <<>>
  /\ lastFlow = <<>>
  /\ savedFlow = <<>>
  /\ savedLatent = <<>>

\* (variant) the two loops nested the other way round
CtorAppendSwapped ==
  /\ pc = "ctor"
  /\ f < flow_length
  /\ bi <= Len(blocks)
  /\ dim >= 0
  /\ biject' = Append(biject, NewFlow(blocks[bi], Len(biject) + 1, dim, seed, drawn))
  /\ drawn' = drawn + Draws(blocks[bi], dim)
  /\ IF f + 1 < flow_length
       THEN f' = f + 1 /\ bi' = bi
       ELSE f' = 0 /\ bi' = bi + 1
  /\ UNCHANGED <<pc, dim, blocks, flow_length, seed>>
  /\ UNCHANGED <<flowVars, paramVars, latentVars, stepped, auxVars, histVars>>

\* biject.append(b_flow(dim)) for the current f and b_flow, dim >= 0
CtorAppend ==
  /\ pc = "ctor"
  /\ f < flow_length
  /\ bi <= Len(blocks)
  /\ dim >= 0
  /\ biject' = Append(biject, NewFlow(blocks[bi], Len(biject) + 1, dim, seed, drawn))
  /\ drawn' = drawn + Draws(blocks[bi], dim)
  /\ IF bi < Len(blocks)
       THEN bi' = bi + 1 /\ f' = f
       ELSE bi' = 1 /\ f' = f + 1
  /\ UNCHANGED <<pc, dim, blocks, flow_length, seed>>
  /\ UNCHANGED <<flowVars, paramVars, latentVars, stepped, auxVars, histVars>>

\* b_flow(dim) with dim < 0: torch.Tensor(1, dim) raises
CtorRaise ==
  /\ pc = "ctor"
  /\ f < flow_length
  /\ bi <= Len(blocks)
  /\ dim < 0
  /\ pc' = "raised"
  /\ UNCHANGED <<ctorVars, flowVars, paramVars, latentVars, stepped, auxVars, histVars>>

\* the loops are over: self.bijectors = nn.ModuleList(biject), self.log_det = []
CtorEnd ==
  /\ pc = "ctor"
  /\ ~(f < flow_length /\ bi <= Len(blocks))
  /\ bijectors' = biject
  /\ log_det' = NewList({})
  /\ heap' = [i \in {NewList({})} |-> <<>>]
  /\ pc' = "idle"
  /\ UNCHANGED <<ctorVars, paramVars, latentVars, stepped, auxVars, histVars>>

\* ------------------------------------------------------------------------
\* The model's forward pass: encode, latent, NormalizingFlow.forward
\* ------------------------------------------------------------------------
\* a tensor of shape (n, d) whose entries differ: v * (r + c - 1)
Grade(v, n, d) == [r \in 1..n |-> [c \in 1..d |-> v * (r + c - 1)]]

\* encode: the encoder's output h of shape (n, 1), then the mu head and the
\* sigma head, each with a weight of shape (d, 1) and the bias 0.01
HeadBias(d) == [c \in 1..d |-> Scale \div 100]
MuWeight(d) == [c \in 1..d |-> <<(Scale \div 2) * c>>]
SigmaWeight(d) == [c \in 1..d |-> <<6 * Scale>>]
Encode ==
  /\ pc = "idle"
  /\ \E n \in 1..MaxBatch, hv \in EncVals :
       LET h == Grade(hv, n, 1)
       IN /\ n_batch' = n
          /\ mu' = Linear(h, MuWeight(dim), HeadBias(dim))
          /\ sigma' = SigmaHead(h, SigmaWeight(dim), HeadBias(dim))
  /\ pc' = "encoded"
  /\ UNCHANGED <<cls, ctorVars, flowVars, latentVars, stepped, auxVars, histVars>>

\* VAE.latent, whole
PlainLatent ==
  /\ pc = "encoded"
  /\ cls = "VAE"
  /\ \E ev \in EpsVals :
       LET e == Grade(ev, n_batch, dim)
           ret == VAELatent(n_batch, mu, sigma, e)
       IN /\ eps' = e
          /\ z_0' = ret.z
          /\ result' = <<ret>>
  /\ pc' = "latent_ret"
  /\ UNCHANGED <<fz, fb, z_k, list_ladj>>
  /\ UNCHANGED <<ctorVars, flowVars, paramVars, stepped, auxVars, histVars>>

\* VAENormalizingFlow.latent up to the call self.flow(z_0), and forward's
\* first statement
FlowLatentCall ==
  /\ pc = "encoded"
  /\ cls = "VAENormalizingFlow"
  /\ \E ev \in EpsVals :
       /\ eps' = Grade(ev, n_batch, dim)
       /\ z_0' = Reparam(mu, sigma, eps')
       /\ fz' = z_0'
  /\ LET on == ForwardEnter(heap, log_det, {list_ladj, held} \ {0})
     IN /\ heap' = on.heap
        /\ log_det' = on.log_det
  /\ fb' = 0
  /\ entry' = <<[bijectors |-> bijectors, log_det |-> log_det,
                 len |-> Len(heap[log_det])]>>
  /\ pc' = "flow"
  /\ UNCHANGED <<z_k, list_ladj, result, bijectors>>
  /\ UNCHANGED <<ctorVars, paramVars, stepped, auxVars, lastFlow, savedFlow, savedLatent>>

\* forward: one turn of the loop
ForwardStep ==
  /\ pc = "flow"
  /\ fb < Len(bijectors)
  /\ \E turn \in {ForwardIter(bijectors, fz, heap[log_det], fb + 1)} :
        /\ heap' = [heap EXCEPT ![log_det] = turn.log_det]
        /\ fz' = turn.z
        /\ bijectors' = turn.bijectors
        /\ lastFlow' = <<[flow |-> bijectors[fb + 1], z |-> fz, out |-> turn.z,
                          ladj |-> turn.log_det[Len(turn.log_det)]]>>
  /\ fb' = fb + 1
  /\ UNCHANGED <<pc, log_det, eps, z_0, z_k, list_ladj, result>>
  /\ UNCHANGED <<ctorVars, paramVars, stepped, auxVars, entry, savedFlow, savedLatent>>

\* forward: return z, self.log_det
ForwardReturn ==
  /\ pc = "flow"
  /\ fb >= Len(bijectors)
  /\ z_k' = fz
  /\ list_ladj' = log_det
  /\ pc' = "flow_ret"
  /\ UNCHANGED <<eps, z_0, fz, fb, result>>
  /\ UNCHANGED <<ctorVars, flowVars, paramVars, stepped, auxVars, histVars>>

\* VAENormalizingFlow.latent after the call: torch.cat raises on an empty
\* list, otherwise (z_k, logs / n_batch) is returned
FlowLatentReturn ==
  /\ pc = "flow_ret"
  /\ IF heap[list_ladj] = <<>>
       THEN pc' = "raised" /\ result' = result
       ELSE /\ pc' = "latent_ret"
            /\ result' = <<FlowLatent(n_batch, mu, sigma, z_0, z_k, heap[list_ladj])>>
  /\ list_ladj' = 0
  /\ UNCHANGED <<eps, z_0, fz, fb, z_k>>
  /\ UNCHANGED <<ctorVars, flowVars, paramVars, stepped, auxVars, histVars>>

\* ------------------------------------------------------------------------
\* The driver
\* ------------------------------------------------------------------------
\* the call model(x) is over: the frames of forward and latent, their locals
\* and the returned pair are gone
FramesGone ==
  /\ eps' = <<>>
  /\ z_0' = <<>>
  /\ fz' = <<>>
  /\ fb' = 0
  /\ z_k' = <<>>
  /\ list_ladj' = 0
  /\ result' = <<>>
  /\ entry' = <<>>
  /\ lastFlow' = <<>>

\* train_vae: loss, optimizer.zero_grad(), loss.backward(), optimizer.step(),
\* scheduler.step(); the flows are parameters of a VAENormalizingFlow only
OptimizerStep ==
  /\ pc = "latent_ret"
  /\ stepped' = TRUE
  /\ \E k \in StepVals :
       bijectors' = IF cls = "VAENormalizingFlow"
                      THEN [i \in DOMAIN bijectors |-> Trained(biject[i], k)]
                      ELSE bijectors
  /\ FramesGone
  /\ pc' = "idle"
  /\ UNCHANGED <<log_det, heap, ctorVars, paramVars, savedFlow, savedLatent, auxVars>>

\* a forward pass outside training (x_tilde, _ = model(samples)): the
\* returned values are dropped
Discard ==
  /\ pc = "latent_ret"
  /\ FramesGone
  /\ pc' = "idle"
  /\ UNCHANGED <<ctorVars, flowVars, paramVars, stepped, auxVars, savedFlow, savedLatent>>

\* ------------------------------------------------------------------------
\* Specifications
\* ------------------------------------------------------------------------
\* a VAENormalizingFlow: construction of its flow, then forward passes and
\* training steps
Init ==
  /\ pc = "ctor"
  /\ cls = "VAENormalizingFlow"
  /\ dim \in TrainDims
  /\ blocks \in BlockLists
  /\ flow_length \in 0..MaxTrainFlowLength
  /\ seed = 0
  /\ Blank
  /\ AuxBlank
Next ==
  \/ CtorAppend
  \/ CtorEnd
  \/ Encode
  \/ FlowLatentCall
  \/ ForwardStep
  \/ ForwardReturn
  \/ FlowLatentReturn
  \/ OptimizerStep
  \/ Discard
Spec == Init /\ [][Next]_vars

\* construction of a NormalizingFlow alone, over every dim and flow_length
InitCtor ==
  /\ pc = "ctor"
  /\ cls = "VAENormalizingFlow"
  /\ dim \in Dims
  /\ blocks \in BlockLists
  /\ flow_length \in 0..MaxFlowLength
  /\ seed \in Seeds
  /\ Blank
  /\ AuxBlank
NextCtor ==
  \/ CtorAppend
  \/ CtorRaise
  \/ CtorEnd
SpecCtor == InitCtor /\ [][NextCtor]_vars

\* a plain VAE: forward passes and training steps, and an observer that
\* keeps one latent call to compare later ones with
InitVAE ==
  /\ pc = "idle"
  /\ cls = "VAE"
  /\ dim \in TrainDims
  /\ blocks = <<>>
  /\ flow_length = 0
  /\ seed = 0
  /\ Blank
  /\ AuxBlank
SaveLatent ==
  /\ pc = "latent_ret"
  /\ savedLatent' = <<[n |-> n_batch, mu |-> mu, sigma |-> sigma, eps |-> eps,
                       z |-> result[1].z, reg |-> result[1].reg]>>
  /\ UNCHANGED <<pc, ctorVars, flowVars, paramVars, latentVars, stepped, auxVars>>
  /\ UNCHANGED <<entry, lastFlow, savedFlow>>
NextVAE ==
  \/ Encode
  \/ PlainLatent
  \/ OptimizerStep
  \/ Discard
  \/ SaveLatent
SpecVAE == InitVAE /\ [][NextVAE]_vars

\* one flow called on its own, again and again: with its parameters fixed it
\* is given inputs, the generator is sampled in between, and an observer
\* keeps one call and counts the calls made since
FlowsUnderTest(d) ==
  {Trained(NewFlow(kind, 1, d, 0, 0), k) : kind \in Kinds, k \in {0} \cup StepVals}
Inputs(d) == {Grade(v, n, d) : v \in EpsVals, n \in 1..MaxBatch}
InitPure ==
  /\ pc = "pure"
  /\ cls = "VAENormalizingFlow"
  /\ dim \in TrainDims
  /\ blocks = <<>>
  /\ flow_length = 0
  /\ seed = 0
  /\ drawn = 0
  /\ f = 0
  /\ bi = 1
  /\ biject = <<>>
  /\ bijectors \in {<<p>> : p \in FlowsUnderTest(dim)}
  /\ log_det = 0
  /\ heap = <<>>
  /\ n_batch = 0
  /\ mu = <<>>
  /\ sigma = <<>>
  /\ eps = <<>>
  /\ z_0 = <<>>
  /\ fz \in Inputs(dim)
  /\ fb = 0
  /\ z_k = <<>>
  /\ list_ladj = 0
  /\ result = <<>>
  /\ stepped = FALSE
  /\ entry = <<>>
  /\ lastFlow = <<>>
  /\ savedFlow = <<>>
  /\ savedLatent = <<>>
  /\ AuxBlank
PureCall ==
  /\ pc = "pure"
  /\ lastFlow' = <<[flow |-> bijectors[1], z |-> fz,
                    out |-> FlowCall(bijectors[1], fz),
                    ladj |-> FlowLogDet(bijectors[1], fz)]>>
  /\ savedFlow' = IF savedFlow = <<>> THEN savedFlow
                  ELSE <<[savedFlow[1] EXCEPT !.since = Min(2, @ + 1)]>>
  /\ UNCHANGED <<pc, ctorVars, flowVars, paramVars, latentVars, stepped, auxVars>>
  /\ UNCHANGED <<entry, savedLatent>>
PureInput ==
  /\ pc = "pure"
  /\ fz' \in Inputs(dim) \ {fz}
  /\ UNCHANGED <<pc, ctorVars, flowVars, paramVars, stepped, auxVars, histVars>>
  /\ UNCHANGED <<eps, z_0, fb, z_k, list_ladj, result>>
PureSample ==
  /\ pc = "pure"
  /\ eps' \in {Grade(ev, 1, dim) : ev \in EpsVals} \ {eps}
  /\ UNCHANGED <<pc, ctorVars, flowVars, paramVars, stepped, auxVars, histVars>>
  /\ UNCHANGED <<fz, z_0, fb, z_k, list_ladj, result>>
PureSave ==
  /\ pc = "pure"
  /\ lastFlow # <<>>
  /\ savedFlow' = <<[call |-> lastFlow[1], since |-> 0]>>
  /\ UNCHANGED <<pc, ctorVars, flowVars, paramVars, latentVars, stepped, auxVars>>
  /\ UNCHANGED <<entry, lastFlow, savedLatent>>
NextPure ==
  \/ PureCall
  \/ PureInput
  \/ PureSample
  \/ PureSave
SpecPure == InitPure /\ [][NextPure]_vars

\* one flow with chosen parameters called at chosen points: rows at and off
\* the centre of a radial flow, rows on and off the hyperplane w.z + b = 0 of
\* a planar flow, parameters small, zero and large
PointVals == {0 - Scale, 0, Scale}
AlphaVals == {0 - Scale, 0, 1, Scale \div 2}
BetaVals == {0 - Scale, 0, Scale, 10 * Scale}
Rows(d) == [1..d -> PointVals]
PointInputs(d) ==
  {<<a>> : a \in Rows(d)} \cup {<<a, [c \in 1..d |-> 0]>> : a \in Rows(d)}
RadialPoints(d) ==
  {[id |-> 1, kind |-> "RadialFlow", z0 |-> c, alpha |-> a, beta |-> b, dim |-> d] :
     c \in Rows(d), a \in AlphaVals, b \in BetaVals}
PlanarPoints(d) ==
  {[id |-> 1, kind |-> "PlanarFlow", weight |-> w, scale |-> u, bias |-> b] :
     w \in Rows(d), u \in {[c \in 1..d |-> IF c = 1 THEN Scale ELSE 0],
                          [c \in 1..d |-> 0 - Scale \div 2]}, b \in PointVals}
InitPoint ==
  /\ pc = "pure"
  /\ cls = "VAENormalizingFlow"
  /\ dim \in TrainDims
  /\ blocks = <<>>
  /\ flow_length = 0
  /\ seed = 0
  /\ drawn = 0
  /\ f = 0
  /\ bi = 1
  /\ biject = <<>>
  /\ bijectors \in {<<p>> : p \in RadialPoints(dim) \cup PlanarPoints(dim)}
  /\ log_det = 0
  /\ heap = <<>>
  /\ n_batch = 0
  /\ mu = <<>>
  /\ sigma = <<>>
  /\ eps = <<>>
  /\ z_0 = <<>>
  /\ fz \in PointInputs(dim)
  /\ fb = 0
  /\ z_k = <<>>
  /\ list_ladj = 0
  /\ result = <<>>
  /\ stepped = FALSE
  /\ entry = <<>>
  /\ lastFlow = <<>>
  /\ savedFlow = <<>>
  /\ savedLatent = <<>>
  /\ AuxBlank
PointInput ==
  /\ pc = "pure"
  /\ lastFlow # <<>>
  /\ fz' \in PointInputs(dim) \ {fz}
  /\ lastFlow' = <<>>
  /\ UNCHANGED <<pc, ctorVars, flowVars, paramVars, stepped, auxVars>>
  /\ UNCHANGED <<eps, z_0, fb, z_k, list_ladj, result, entry, savedFlow, savedLatent>>
NextPoint ==
  \/ PureCall
  \/ PointInput
SpecPoint == InitPoint /\ [][NextPoint]_vars

\* a NormalizingFlow used on its own: a caller constructs it, calls forward
\* again and again, and keeps or drops the list each call returns
InitHold ==
  /\ pc = "ctor"
  /\ cls = "VAENormalizingFlow"
  /\ dim \in TrainDims
  /\ blocks \in BlockLists
  /\ flow_length \in {0, 1}
  /\ seed = 0
  /\ Blank
  /\ AuxBlank

\* z, log_det = flow(z): the call, and forward's first statement
CallForward ==
  /\ pc = "idle"
  /\ \E z \in Inputs(dim) :
       /\ z_0' = z
       /\ fz' = z
  /\ LET on == ForwardEnter(heap, log_det, {held} \ {0})
     IN /\ heap' = on.heap
        /\ log_det' = on.log_det
  /\ fb' = 0
  /\ entry' = <<[bijectors |-> bijectors, log_det |-> log_det,
                 len |-> Len(heap[log_det])]>>
  /\ pc' = "flow"
  /\ UNCHANGED <<eps, z_k, list_ladj, result, bijectors>>
  /\ UNCHANGED <<ctorVars, paramVars, stepped, auxVars, lastFlow, savedFlow, savedLatent>>

\* the caller keeps the returned list in place of the one it held; a list
\* no one refers to any more is gone
CallerKeep ==
  /\ pc = "flow_ret"
  /\ held' = list_ladj
  /\ heldLog' = heap[list_ladj]
  /\ heap' = [i \in {log_det, list_ladj} |-> heap[i]]
  /\ FramesGone
  /\ pc' = "idle"
  /\ UNCHANGED <<ctorVars, bijectors, log_det, paramVars, stepped, savedFlow, savedLatent>>
  /\ UNCHANGED <<batch_idx, trainVars, evalVars>>

\* the caller drops the returned list and goes on holding what it held
CallerDrop ==
  /\ pc = "flow_ret"
  /\ heap' = [i \in {log_det} \cup ({held} \ {0}) |-> heap[i]]
  /\ FramesGone
  /\ pc' = "idle"
  /\ UNCHANGED <<ctorVars, bijectors, log_det, paramVars, stepped, savedFlow, savedLatent>>
  /\ UNCHANGED auxVars
NextHold ==
  \/ CtorAppend
  \/ CtorEnd
  \/ CallForward
  \/ ForwardStep
  \/ ForwardReturn
  \/ CallerKeep
  \/ CallerDrop
SpecHold == InitHold /\ [][NextHold]_vars

\* train_vae on a plain VAE: the loop over the epochs and, inside it, the loop
\* over the batches, which stops early once batch_idx * batch_size exceeds
\* subsample
batch_size == 64
MaxEpochs == 3
SubsampleVals == {0, 5000}
LossVals == {Scale, 3 * Scale}
InitTrain ==
  /\ pc = "train"
  /\ cls = "VAE"
  /\ dim = 1
  /\ blocks = <<>>
  /\ flow_length = 0
  /\ seed = 0
  /\ Blank
  /\ batch_idx = 0
  /\ HoldBlank
  /\ EvalBlank
  /\ epochs \in 1..MaxEpochs
  /\ subsample \in SubsampleVals
  /\ train_loader \in 1..2
  /\ it = 0
  /\ beta = 0
  /\ loss = 0

\* (variant) a weight counted from the end of the epoch
TrainEpochFromOne ==
  /\ pc = "train"
  /\ it < epochs
  /\ beta' = Mul(Scale, Div((it + 1) * Scale, epochs * Scale))
  /\ batch_idx' = 0
  /\ pc' = "batches"
  /\ UNCHANGED <<coreVars, holdVars, evalVars>>
  /\ UNCHANGED <<epochs, subsample, train_loader, it, loss>>

\* for it in range(epochs): the next epoch begins, beta = 1. * (it / float(epochs))
TrainEpoch ==
  /\ pc = "train"
  /\ it < epochs
  /\ beta' = Mul(Scale, Div(it * Scale, epochs * Scale))
  /\ batch_idx' = 0
  /\ pc' = "batches"
  /\ UNCHANGED <<coreVars, holdVars, evalVars>>
  /\ UNCHANGED <<epochs, subsample, train_loader, it, loss>>

\* one batch: the forward pass gives loss_recons and loss_latent,
\* loss = loss_recons + (beta * loss_latent), then the optimizer steps
TrainBatch ==
  /\ pc = "batches"
  /\ batch_idx < train_loader
  /\ ~(batch_idx * batch_size > subsample)
  /\ \E loss_recons \in LossVals, loss_latent \in LossVals :
       loss' = Add(loss_recons, Mul(beta, loss_latent))
  /\ stepped' = TRUE
  /\ batch_idx' = batch_idx + 1
  /\ UNCHANGED <<pc, ctorVars, flowVars, paramVars, latentVars, histVars>>
  /\ UNCHANGED <<holdVars, evalVars, epochs, subsample, train_loader, it, beta>>

\* the batches are over or the loop broke off: losses[it, :] /= n_batch, the
\* plot of the fixed batch, and the next it
TrainEpochEnd ==
  /\ pc = "batches"
  /\ batch_idx >= train_loader \/ batch_idx * batch_size > subsample
  /\ it' = it + 1
  /\ pc' = "train"
  /\ UNCHANGED <<coreVars, holdVars, evalVars>>
  /\ UNCHANGED <<batch_idx, epochs, subsample, train_loader, beta, loss>>

\* the epochs are over: return losses
TrainReturn ==
  /\ pc = "train"
  /\ it >= epochs
  /\ pc' = "done"
  /\ UNCHANGED <<coreVars, auxVars>>
NextTrain ==
  \/ TrainEpoch
  \/ TrainBatch
  \/ TrainEpochEnd
  \/ TrainReturn
SpecTrain == InitTrain /\ [][NextTrain]_vars

\* evaluate_nll_bpd on a plain VAE.  A sample is a row that names its batch
\* and its place in it; the score the model gives a repeated sample is
\* written as that sample, an estimate as the samples whose scores it combines.
MaxLoader == 2
MaxReps == 2
Sample(b, i) == <<10 * b + i>>
Loader(sizes) == [b \in DOMAIN sizes |-> [i \in 1..sizes[b] |-> Sample(b, i)]]
Loaders == {Loader(sz) : sz \in UNION {[1..k -> 1..MaxLoader] : k \in 1..MaxLoader}}
InitEval ==
  /\ pc = "eval"
  /\ cls = "VAE"
  /\ dim = 1
  /\ blocks = <<>>
  /\ flow_length = 0
  /\ seed = 0
  /\ Blank
  /\ batch_idx = 0
  /\ TrainBlank
  /\ HoldBlank
  /\ data_loader \in Loaders
  /\ batch \in 1..(MaxLoader + 1)
  /\ R \in 1..MaxReps
  /\ ev_x = <<>>
  /\ ev_j = 0
  /\ j_end = 0
  /\ ev_r = 0
  /\ ev_a = <<>>
  /\ likelihood_test = <<>>

\* for batch_idx, (x, _) in enumerate(data_loader): the next batch, and
\* range(x.shape[0]) of the loop over j, evaluated once
EvalBatch ==
  /\ pc = "eval"
  /\ batch_idx < Len(data_loader)
  /\ ev_x' = data_loader[batch_idx + 1]
  /\ j_end' = Len(data_loader[batch_idx + 1])
  /\ ev_j' = 0
  /\ pc' = "eval_j"
  /\ UNCHANGED <<coreVars, batch_idx, trainVars, holdVars>>
  /\ UNCHANGED <<data_loader, batch, R, ev_r, ev_a, likelihood_test>>

\* for j in range(...): a = []
EvalSample ==
  /\ pc = "eval_j"
  /\ ev_j < j_end
  /\ ev_a' = <<>>
  /\ ev_r' = 0
  /\ pc' = "eval_r"
  /\ UNCHANGED <<coreVars, batch_idx, trainVars, holdVars>>
  /\ UNCHANGED <<data_loader, batch, R, ev_x, ev_j, j_end, likelihood_test>>

\* for r in range(0, R): cur_x = x[j].unsqueeze(0); x = cur_x repeated batch
\* times; the model's score of x is appended to a
EvalRepeat ==
  /\ pc = "eval_r"
  /\ ev_r < R
  /\ ev_j < Len(ev_x)
  /\ LET cur_x == ev_x[ev_j + 1]
     IN /\ ev_x' = [i \in 1..batch |-> cur_x]
        /\ ev_a' = Append(ev_a, cur_x)
  /\ ev_r' = ev_r + 1
  /\ UNCHANGED <<pc, coreVars, batch_idx, trainVars, holdVars>>
  /\ UNCHANGED <<data_loader, batch, R, ev_j, j_end, likelihood_test>>

\* x[j] with j beyond the rows of x: IndexError
EvalIndexError ==
  /\ pc = "eval_r"
  /\ ev_r < R
  /\ ev_j >= Len(ev_x)
  /\ pc' = "raised"
  /\ UNCHANGED <<coreVars, auxVars>>

\* the repetitions are over: likelihood_test.append(...), and the next j
EvalAppend ==
  /\ pc = "eval_r"
  /\ ev_r >= R
  /\ likelihood_test' = Append(likelihood_test, ev_a)
  /\ ev_j' = ev_j + 1
  /\ pc' = "eval_j"
  /\ UNCHANGED <<coreVars, batch_idx, trainVars, holdVars>>
  /\ UNCHANGED <<data_loader, batch, R, ev_x, j_end, ev_r, ev_a>>

\* the loop over j is over: the next batch_idx
EvalBatchEnd ==
  /\ pc = "eval_j"
  /\ ev_j >= j_end
  /\ batch_idx' = batch_idx + 1
  /\ pc' = "eval"
  /\ UNCHANGED <<coreVars, trainVars, holdVars, evalVars>>

\* the batches are over: nll and bpd are computed from likelihood_test
EvalReturn ==
  /\ pc = "eval"
  /\ batch_idx >= Len(data_loader)
  /\ pc' = "done"
  /\ UNCHANGED <<coreVars, auxVars>>
NextEval ==
  \/ EvalBatch
  \/ EvalSample
  \/ EvalRepeat
  \/ EvalIndexError
  \/ EvalAppend
  \/ EvalBatchEnd
  \/ EvalReturn
SpecEval == InitEval /\ [][NextEval]_vars

\* ------------------------------------------------------------------------
\* Properties
\* ------------------------------------------------------------------------
\* the output of the first i flows of bs, applied in list order to z
RECURSIVE ApplyFlows(_, _, _)
ApplyFlows(bs, z, i) ==
  IF i = 0 THEN z ELSE FlowCall(bs[i], ApplyFlows(bs, z, i - 1))

\* C1: a constructed NormalizingFlow holds exactly flow_length * len(blocks)
\* flows, distinct instances, and the flow at position i (from 0) is an
\* instance of blocks[i mod len(blocks)].
C1_FlowsBuilt ==
  pc = "idle" =>
    /\ Len(bijectors) = flow_length * Len(blocks)
    /\ \A i \in DOMAIN bijectors :
         /\ bijectors[i].kind = blocks[((i - 1) % Len(blocks)) + 1]
         /\ \A j \in DOMAIN bijectors : bijectors[j].id = bijectors[i].id => j = i

\* C1 witness: two different blocks repeated three times were built.
C1_Witness ==
  /\ pc = "idle"
  /\ flow_length = 3
  /\ Len(blocks) = 2
  /\ blocks[1] # blocks[2]
  /\ Len(bijectors) = 6

\* C2: while forward runs and when it returns, the i-th recorded
\* log-determinant is that of flow i at the value flows 1 .. i - 1 made of the
\* input (the input itself for the first flow), and z is the output of the
\* flows applied so far, in list order; the returned z is the last flow's.
C2_RecordedBeforeTransform ==
  pc \in {"flow", "flow_ret"} =>
    /\ fz = ApplyFlows(bijectors, z_0, fb)
    /\ Len(heap[log_det]) = fb
    /\ \A i \in 1..fb :
         heap[log_det][i] = FlowLogDet(bijectors[i], ApplyFlows(bijectors, z_0, i - 1))
    /\ pc = "flow_ret" =>
         /\ fb = Len(bijectors)
         /\ z_k = fz
         /\ list_ladj = log_det

\* C2 witness: forward returned from two or more flows, and for one of them
\* the log-determinant before its transform differs from the one after it.
C2_Witness ==
  /\ pc = "flow_ret"
  /\ Len(bijectors) >= 2
  /\ \E i \in DOMAIN bijectors :
       FlowLogDet(bijectors[i], ApplyFlows(bijectors, z_0, i - 1))
         # FlowLogDet(bijectors[i], ApplyFlows(bijectors, z_0, i))

\* C3: whenever forward returns, self.log_det and the returned list hold
\* exactly one entry per flow, however many calls came before.
C3_OneEntryPerFlow ==
  pc = "flow_ret" =>
    /\ Len(heap[log_det]) = Len(bijectors)
    /\ Len(heap[list_ladj]) = Len(bijectors)

\* C3 witness: forward returned, and when it was entered self.log_det still
\* held the entries of an earlier call.
C3_Witness ==
  /\ pc = "flow_ret"
  /\ Len(bijectors) >= 2
  /\ entry[1].len = Len(bijectors)

\* C4 as claimed: when forward returns, the instance holds what it held when
\* the call began: the same flows and a self.log_det of the same length.
C4_NothingChanged ==
  pc = "flow_ret" =>
    /\ bijectors = entry[1].bijectors
    /\ Len(heap[log_det]) = entry[1].len

\* C4 amended: forward changes nothing of the instance but self.log_det,
\* which it rebinds to a new list, the one it returns; the flows and their
\* parameters are what they were when the call began.
C4_OnlyLogDetChanged ==
  pc \in {"flow", "flow_ret"} =>
    /\ bijectors = entry[1].bijectors
    /\ log_det # entry[1].log_det
    /\ pc = "flow_ret" => list_ladj = log_det

\* C4 witness: forward returned and self.log_det is not as long as it was.
C4_Witness ==
  /\ pc = "flow_ret"
  /\ Len(bijectors) >= 1
  /\ Len(heap[log_det]) # entry[1].len

\* the number, order and identity of the flows
Structure(bs) == [i \in DOMAIN bs |-> [id |-> bs[i].id, kind |-> bs[i].kind]]

\* C5: once the sequence is constructed no step changes the number, order or
\* identity of its flows, and a step that changes a flow parameter is the
\* optimizer step.
C5_OnlyOptimizerWrites ==
  [][pc # "ctor" =>
       /\ Structure(bijectors') = Structure(bijectors)
       /\ bijectors' # bijectors =>
            /\ pc = "latent_ret"
            /\ pc' = "idle"
            /\ stepped']_vars

\* C5 witness: a forward pass over two or more flows has returned after an
\* optimizer step changed their parameters.
C5_Witness ==
  /\ pc = "flow_ret"
  /\ stepped
  /\ Len(bijectors) >= 2
  /\ bijectors # biject
  /\ Structure(bijectors) = Structure(biject)

\* every log-determinant the flows record on the way from z: flow i at the
\* output of flows 1 .. i - 1, every sample once
RECURSIVE SumLogDets(_, _, _)
SumLogDets(bs, z, i) ==
  IF i = 0 THEN 0
  ELSE Add(SumLogDets(bs, z, i - 1),
           SumAll(FlowLogDet(bs[i], ApplyFlows(bs, z, i - 1))))

\* C6: two calls of VAE.latent with the same mu, sigma and batch size return
\* the same kl_div whatever was drawn, and each returns z = sigma * eps + mu.
C6_KLIgnoresDraw ==
  (pc = "latent_ret" /\ cls = "VAE") =>
    /\ result[1].z = Reparam(mu, sigma, eps)
    /\ (/\ savedLatent # <<>>
        /\ savedLatent[1].n = n_batch
        /\ savedLatent[1].mu = mu
        /\ savedLatent[1].sigma = sigma) => result[1].reg = savedLatent[1].reg

\* C6 witness: two calls with the same mu and sigma and different draws, whose
\* z differ.
C6_Witness ==
  /\ pc = "latent_ret"
  /\ cls = "VAE"
  /\ savedLatent # <<>>
  /\ savedLatent[1].n = n_batch
  /\ savedLatent[1].mu = mu
  /\ savedLatent[1].sigma = sigma
  /\ savedLatent[1].eps # eps
  /\ savedLatent[1].z # result[1].z

C8_FlowLatentValue ==
  (pc = "latent_ret" /\ cls = "VAENormalizingFlow") =>
    /\ z_0 = Reparam(mu, sigma, eps)
    /\ result[1].z = ApplyFlows(bijectors, z_0, Len(bijectors))
    /\ result[1].reg =
         DivCount(Sub(SumLogs(mu, sigma, z_0, ApplyFlows(bijectors, z_0, Len(bijectors))),
                      SumLogDets(bijectors, z_0, Len(bijectors))),
                  n_batch)

\* C8 witness: latent returned for two samples pushed through two or more
\* flows that moved them and recorded log-determinants that do not sum to 0.
C8_Witness ==
  /\ pc = "latent_ret"
  /\ cls = "VAENormalizingFlow"
  /\ n_batch = 2
  /\ Len(bijectors) >= 2
  /\ result[1].z # z_0
  /\ SumLogDets(bijectors, z_0, Len(bijectors)) # 0

\* C9: every entry of sigma lies in [1e-4, 5.0], so it is positive wherever
\* latent divides by it or takes its logarithm.
C9_SigmaInRange ==
  \A r \in DOMAIN sigma : \A c \in DOMAIN sigma[r] :
    /\ SigmaMin <= sigma[r][c]
    /\ sigma[r][c] <= SigmaMax
    /\ sigma[r][c] > 0

\* C9 witness: the flow-augmented latent is about to divide by a sigma that
\* holds the floor 1e-4 and a value the clamp left alone.
C9_Witness ==
  /\ pc = "flow_ret"
  /\ \E r \in DOMAIN sigma : \E c \in DOMAIN sigma[r] : sigma[r][c] = SigmaMin
  /\ \E r \in DOMAIN sigma : \E c \in DOMAIN sigma[r] :
       sigma[r][c] > SigmaMin /\ sigma[r][c] < SigmaMax

\* C10: no flow instance exists whose dim is zero or negative: constructing
\* one is rejected.
C10_NonPositiveDimRejected == Len(biject) > 0 => dim > 0

\* C11: constructing a NormalizingFlow with no flows (blocks empty or
\* flow_length = 0) fails at construction: no constructed instance holds an
\* empty list of flows.
C11_EmptyFlowListRejected == pc # "ctor" => Len(bijectors) >= 1

\* beta * h at the centre of a radial flow, where r = 0 and h = 1 / alpha
BetaH(p) == Mul(p.beta, Div(Scale, p.alpha))

C13_PlanarOnHyperplane ==
  (lastFlow # <<>> /\ lastFlow[1].flow.kind = "PlanarFlow") =>
    /\ \A r \in DOMAIN lastFlow[1].z :
         PlanarLinear(lastFlow[1].flow, lastFlow[1].z[r]) = 0 =>
           /\ lastFlow[1].out[r] = lastFlow[1].z[r]
           /\ lastFlow[1].ladj[r] =
                <<LogAbsEps(Add(Scale, Dot(lastFlow[1].flow.weight, lastFlow[1].flow.scale)))>>
    /\ (/\ lastFlow[1].flow.weight = <<Scale, 0>>
        /\ lastFlow[1].flow.scale = <<Scale, 0>>
        /\ lastFlow[1].flow.bias = 0) =>
         \A r \in DOMAIN lastFlow[1].z :
           lastFlow[1].z[r] = <<0, 0>> =>
             /\ lastFlow[1].out[r] = <<0, 0>>
             /\ lastFlow[1].ladj[r] = <<Log(2 * Scale)>>
             /\ Abs(lastFlow[1].ladj[r][1] - Ln2) <= 1

\* C13 witness: the flow w = [1, 0], u = [1, 0] with a bias off zero was called
\* on a row on its hyperplane, off the origin, and on a row off the
\* hyperplane, which it moved.
C13_Witness ==
  /\ lastFlow # <<>>
  /\ lastFlow[1].flow.kind = "PlanarFlow"
  /\ lastFlow[1].flow.weight = <<Scale, 0>>
  /\ lastFlow[1].flow.scale = <<Scale, 0>>
  /\ lastFlow[1].flow.bias # 0
  /\ Len(lastFlow[1].z) = 2
  /\ PlanarLinear(lastFlow[1].flow, lastFlow[1].z[1]) = 0
  /\ lastFlow[1].ladj[1] = <<Log(2 * Scale)>>
  /\ lastFlow[1].out[2] # lastFlow[1].z[2]
  /\ lastFlow[1].ladj[2] # lastFlow[1].ladj[1]

\* C14 as claimed: beta is 0 in the first epoch and 1 in the final epoch.
C14_BetaReachesOne ==
  pc = "batches" =>
    /\ (it = 0 => beta = 0)
    /\ (it = epochs - 1 => beta = Scale)

\* C14 amended: beta is it / epochs in epoch it (counted from 0): 0 in the
\* first epoch, larger by 1 / epochs in each later one (to the rounding of
\* one unit), never smaller, constant within an epoch, and (epochs - 1) /
\* epochs in the final epoch, so it stays below 1.
C14_BetaRamp ==
  [][/\ (pc = "train" /\ pc' = "batches") =>
          (/\ (it = 0 => beta' = 0)
           /\ (it > 0 => /\ beta' > beta
                         /\ Abs((beta' - beta) - Div(Scale, epochs * Scale)) <= 1)
           /\ (it = epochs - 1 =>
                 Abs(beta' - (Scale - Div(Scale, epochs * Scale))) <= 1)
           /\ beta' < Scale)
      /\ (~(pc = "train" /\ pc' = "batches") => beta' = beta)]_vars

\* C14 witness: in the last of three epochs a loss was computed with a beta
\* that is neither 0 nor 1.
C14_Witness ==
  /\ pc = "batches"
  /\ epochs = 3
  /\ it = 2
  /\ batch_idx >= 1
  /\ beta > 0
  /\ beta < Scale
  /\ loss > 3 * Scale

\* C15: the list a forward call returned, the same object as self.log_det
\* when it was returned, keeps its length and entries through every later
\* call on the instance: a later call makes self.log_det another list.
C15_HeldListUnchanged ==
  /\ pc = "flow_ret" => list_ladj = log_det
  /\ held # 0 =>
       /\ heap[held] = heldLog
       /\ pc \in {"flow", "flow_ret"} => log_det # held

\* C15 witness: a caller holds the list of an earlier call over two flows,
\* and a later call on another input has returned a list of other entries.
C15_Witness ==
  /\ pc = "flow_ret"
  /\ held # 0
  /\ Len(heldLog) = 2
  /\ Len(heap[log_det]) = 2
  /\ heap[log_det] # heldLog

\* the samples of the data set, in the order the loader delivers them
Samples(dl) == Cat(dl)

\* C16: every estimate of evaluate_nll_bpd is computed, in all R repetitions,
\* from its own sample (sample j of the loader's batch for index j), and
\* likelihood_test ends with one entry per sample.
C16_OwnSample ==
  /\ pc = "eval_r" =>
       \A i \in DOMAIN ev_a : ev_a[i] = data_loader[batch_idx + 1][ev_j + 1]
  /\ \A k \in DOMAIN likelihood_test :
       likelihood_test[k] = [i \in 1..R |-> Samples(data_loader)[k]]
  /\ pc = "done" => Len(likelihood_test) = Len(Samples(data_loader))
====
